---- MODULE Spec2Model ----
(***************************************************************************)
(* Mock JSON-RPC server (test-env/mock-rpc.py): Handler.do_POST served by  *)
(* HTTPServer.serve_forever.                                               *)
(*                                                                         *)
(* Text is a sequence of Unicode code points, a byte string a sequence of  *)
(* integers 0..255.  JSON values and Python values share one tagged        *)
(* representation (None is JNull, a dict is JObj, a list is JArr).         *)
(***************************************************************************)
EXTENDS Integers, Sequences, FiniteSets, TLC

(***************************************************************************)
(* Characters and text                                                     *)
(***************************************************************************)

\* The printable ASCII characters with code points 32..95, in order.
AsciiLow ==
  << " ", "!", "\"", "#", "$", "%", "&", "'", "(", ")", "*", "+", ",", "-", ".", "/",
     "0", "1", "2", "3", "4", "5", "6", "7", "8", "9", ":", ";", "<", "=", ">", "?",
     "@", "A", "B", "C", "D", "E", "F", "G", "H", "I", "J", "K", "L", "M", "N", "O",
     "P", "Q", "R", "S", "T", "U", "V", "W", "X", "Y", "Z", "[", "\\", "]", "^", "_" >>

\* The printable ASCII characters with code points 97..126, in order.
AsciiHigh ==
  << "a", "b", "c", "d", "e", "f", "g", "h", "i", "j", "k", "l", "m", "n", "o",
     "p", "q", "r", "s", "t", "u", "v", "w", "x", "y", "z", "{", "|", "}", "~" >>

\* ord(c) for a printable ASCII character c.
Ord == [c \in {AsciiLow[i] : i \in 1..Len(AsciiLow)} \cup
              {AsciiHigh[i] : i \in 1..Len(AsciiHigh)} |->
          IF \E i \in 1..Len(AsciiLow) : AsciiLow[i] = c
          THEN 31 + (CHOOSE i \in 1..Len(AsciiLow) : AsciiLow[i] = c)
          ELSE 96 + (CHOOSE i \in 1..Len(AsciiHigh) : AsciiHigh[i] = c)]

\* A str literal of the source: the code points of its characters.
Text(cs) == [i \in 1..Len(cs) |-> Ord[cs[i]]]

\* s[i:i+1] of Python for a 0-based index i; -1 stands for the empty slice.
At(s, i) == IF i >= 0 /\ i < Len(s) THEN s[i + 1] ELSE -1

\* s[i:] of Python for a 0-based index i.
From(s, i) == SubSeq(s, i + 1, Len(s))

RECURSIVE Join(_)
\* "".join(parts), by halves to keep the evaluation shallow
Join(parts) ==
  IF parts = <<>> THEN <<>>
  ELSE IF Len(parts) = 1 THEN parts[1]
  ELSE LET h == Len(parts) \div 2
       IN  Join(SubSeq(parts, 1, h)) \o Join(SubSeq(parts, h + 1, Len(parts)))

\* The least offset of hits, none if there is no hit.
Least(hits, none) ==
  IF hits = {} THEN none ELSE CHOOSE j \in hits : \A k \in hits : j <= k

Contains(s, c) == \E i \in 1..Len(s) : s[i] = c

IsDigit(c) == c >= Ord["0"] /\ c <= Ord["9"]

RECURSIVE NatToText(_)
\* str(n) for an int n >= 0
NatToText(n) ==
  IF n < 10 THEN << Ord["0"] + n >>
  ELSE NatToText(n \div 10) \o << Ord["0"] + (n % 10) >>

\* str(n) for an int n
IntToText(n) == IF n < 0 THEN << Ord["-"] >> \o NatToText(0 - n) ELSE NatToText(n)

RECURSIVE DigitsValue(_, _)
\* the value of a run of decimal digits, most significant first, after acc
DigitsValue(ds, acc) ==
  IF ds = <<>> THEN acc
  ELSE DigitsValue(Tail(ds), 10 * acc + (Head(ds) - Ord["0"]))

(***************************************************************************)
(* Bytes and UTF-8 (bytes.decode('utf-8') of line 10, str.encode() of 38)  *)
(***************************************************************************)

\* The length of the UTF-8 sequence a lead byte opens; 0 for a byte that
\* opens none (a continuation byte, 0xC0, 0xC1, 0xF5..0xFF).
Utf8Len(b) ==
  IF b < 128 THEN 1
  ELSE IF b >= 194 /\ b <= 223 THEN 2
  ELSE IF b >= 224 /\ b <= 239 THEN 3
  ELSE IF b >= 240 /\ b <= 244 THEN 4
  ELSE 0

\* Whether b may be the second byte after lead byte b0 (no overlong forms,
\* no surrogates, nothing above U+10FFFF).
Utf8Second(b0, b) ==
  IF b0 = 224 THEN b >= 160 /\ b <= 191
  ELSE IF b0 = 237 THEN b >= 128 /\ b <= 159
  ELSE IF b0 = 240 THEN b >= 144 /\ b <= 191
  ELSE IF b0 = 244 THEN b >= 128 /\ b <= 143
  ELSE b >= 128 /\ b <= 191

Utf8Cont(b) == b >= 128 /\ b <= 191

NotAscii(b) == b >= 128

\* The least 0-based offset j >= i of a byte of bs that is not ASCII,
\* len(bs) if none.
AsciiEnd(bs, i) == Least({j \in i..(Len(bs) - 1) : NotAscii(bs[j + 1])}, Len(bs))

RECURSIVE DecodeFrom(_, _, _)
\* Decodes bs from 0-based offset i on, after the code points acc; a run of
\* ASCII bytes is taken in one step.
DecodeFrom(bs, i, acc) ==
  IF i >= Len(bs) THEN [ok |-> TRUE, text |-> acc]
  ELSE LET b0 == bs[i + 1]
           n  == Utf8Len(b0)
           j  == AsciiEnd(bs, i)
       IN  IF n = 0 \/ i + n > Len(bs) THEN [ok |-> FALSE, text |-> acc]
           ELSE IF n = 1 THEN DecodeFrom(bs, j, acc \o SubSeq(bs, i + 1, j))
           ELSE IF ~Utf8Second(b0, bs[i + 2]) THEN [ok |-> FALSE, text |-> acc]
           ELSE IF n = 2
             THEN DecodeFrom(bs, i + 2,
                    Append(acc, (b0 - 192) * 64 + (bs[i + 2] - 128)))
           ELSE IF ~Utf8Cont(bs[i + 3]) THEN [ok |-> FALSE, text |-> acc]
           ELSE IF n = 3
             THEN DecodeFrom(bs, i + 3,
                    Append(acc, (b0 - 224) * 4096 + (bs[i + 2] - 128) * 64
                                + (bs[i + 3] - 128)))
           ELSE IF ~Utf8Cont(bs[i + 4]) THEN [ok |-> FALSE, text |-> acc]
           ELSE DecodeFrom(bs, i + 4,
                    Append(acc, (b0 - 240) * 262144 + (bs[i + 2] - 128) * 4096
                                + (bs[i + 3] - 128) * 64 + (bs[i + 4] - 128)))

\* bytes.decode('utf-8'): ok is FALSE where Python raises UnicodeDecodeError.
Decode(bs) == DecodeFrom(bs, 0, <<>>)

IsSurrogate(c) == c >= 55296 /\ c <= 57343

\* The UTF-8 bytes of one code point that is no surrogate.
EncodeChar(c) ==
  IF c < 128 THEN << c >>
  ELSE IF c < 2048 THEN << 192 + (c \div 64), 128 + (c % 64) >>
  ELSE IF c < 65536
    THEN << 224 + (c \div 4096), 128 + ((c \div 64) % 64), 128 + (c % 64) >>
  ELSE << 240 + (c \div 262144), 128 + ((c \div 4096) % 64),
          128 + ((c \div 64) % 64), 128 + (c % 64) >>

\* str.encode(): ok is FALSE where Python raises UnicodeEncodeError (a
\* surrogate code point).
Encode(text) ==
  [ok    |-> \A i \in 1..Len(text) : ~IsSurrogate(text[i]),
   bytes |-> Join([i \in 1..Len(text) |->
                     IF IsSurrogate(text[i]) THEN <<>> ELSE EncodeChar(text[i])])]

(***************************************************************************)
(* Values                                                                  *)
(***************************************************************************)

JNull    == [t |-> "NoneType"]
JBool(b) == [t |-> "bool", b |-> b]
JInt(n)  == [t |-> "int", n |-> n]
JStr(s)  == [t |-> "str", s |-> s]
JArr(a)  == [t |-> "list", a |-> a]
\* A dict: its items, << key, value >>, in insertion order, keys distinct.
JObj(m)  == [t |-> "dict", m |-> m]

IsDict(v) == v.t = "dict"
IsList(v) == v.t = "list"

HasKey(m, k) == \E i \in 1..Len(m) : m[i][1] = k

\* d[k] = v on the items of a dict: a key already there keeps its place.
DictSet(m, k, v) ==
  IF HasKey(m, k)
  THEN [i \in 1..Len(m) |-> IF m[i][1] = k THEN << k, v >> ELSE m[i]]
  ELSE Append(m, << k, v >>)

RECURSIVE DictOf(_, _)
\* dict(pairs), after the items acc: a later pair of a key replaces its value.
DictOf(pairs, acc) ==
  IF pairs = <<>> THEN acc
  ELSE DictOf(Tail(pairs), DictSet(acc, Head(pairs)[1], Head(pairs)[2]))

\* dict.get(k, ''): the value of k, the empty str when k is absent.
GetOrEmpty(d, k) ==
  IF HasKey(d.m, k)
  THEN d.m[CHOOSE i \in 1..Len(d.m) : d.m[i][1] = k][2]
  ELSE JStr(<<>>)

\* dict.get(k): the value of k, None when k is absent.
Get(d, k) ==
  IF HasKey(d.m, k)
  THEN d.m[CHOOSE i \in 1..Len(d.m) : d.m[i][1] = k][2]
  ELSE JNull

(***************************************************************************)
(* str() and repr() of Python values (the f-string of lines 20 and 27)     *)
(***************************************************************************)

HexDigits == Text(<<"0", "1", "2", "3", "4", "5", "6", "7", "8", "9",
                    "a", "b", "c", "d", "e", "f">>)

\* '{0:02x}'.format(n) and '{0:04x}'.format(n)
Hex2(n) == << HexDigits[((n \div 16) % 16) + 1], HexDigits[(n % 16) + 1] >>
Hex4(n) == Hex2(n \div 256) \o Hex2(n % 256)

RECURSIVE JoinWith(_, _)
\* sep.join(parts)
JoinWith(parts, sep) ==
  IF parts = <<>> THEN <<>>
  ELSE IF Len(parts) = 1 THEN parts[1]
  ELSE parts[1] \o sep \o JoinWith(Tail(parts), sep)

\* One character of repr(str) inside the quotes q.  Code points above the
\* Latin-1 controls are taken as printable, surrogates excepted.
ReprChar(c, q) ==
  IF c = Ord["\\"] THEN << Ord["\\"], Ord["\\"] >>
  ELSE IF c = q THEN << Ord["\\"], q >>
  ELSE IF c = 9 THEN << Ord["\\"], Ord["t"] >>
  ELSE IF c = 10 THEN << Ord["\\"], Ord["n"] >>
  ELSE IF c = 13 THEN << Ord["\\"], Ord["r"] >>
  ELSE IF c < 32 \/ (c >= 127 /\ c < 161) \/ c = 173
    THEN << Ord["\\"], Ord["x"] >> \o Hex2(c)
  ELSE IF IsSurrogate(c) THEN << Ord["\\"], Ord["u"] >> \o Hex4(c)
  ELSE << c >>

\* repr(s) of a str: single quotes, unless s holds one and no double quote.
ReprStr(s) ==
  LET q == IF Contains(s, Ord["'"]) /\ ~Contains(s, Ord["\""])
           THEN Ord["\""] ELSE Ord["'"]
  IN  << q >> \o Join([i \in 1..Len(s) |-> ReprChar(s[i], q)]) \o << q >>

NoneText  == Text(<<"N", "o", "n", "e">>)
TrueText  == Text(<<"T", "r", "u", "e">>)
FalseText == Text(<<"F", "a", "l", "s", "e">>)

RECURSIVE PyRepr(_)
\* repr(v)
PyRepr(v) ==
  CASE v.t = "NoneType" -> NoneText
    [] v.t = "bool" -> IF v.b THEN TrueText ELSE FalseText
    [] v.t = "int"  -> IntToText(v.n)
    [] v.t = "str"  -> ReprStr(v.s)
    [] v.t = "list" ->
         << Ord["["] >>
         \o JoinWith([i \in 1..Len(v.a) |-> PyRepr(v.a[i])], Text(<<",", " ">>))
         \o << Ord["]"] >>
    [] v.t = "dict" ->
         << Ord["{"] >>
         \o JoinWith([i \in 1..Len(v.m) |->
                        ReprStr(v.m[i][1]) \o Text(<<":", " ">>) \o PyRepr(v.m[i][2])],
                     Text(<<",", " ">>))
         \o << Ord["}"] >>

\* str(v), what an f-string puts for {v}: a str is itself, the rest repr(v).
PyStr(v) == IF v.t = "str" THEN v.s ELSE PyRepr(v)

(***************************************************************************)
(* json.dumps (lines 22, 24, 30): ensure_ascii, separators ", " and ": "   *)
(***************************************************************************)

\* One character of a str inside a JSON string literal (ESCAPE_ASCII).
DumpsChar(c) ==
  IF c = Ord["\""] THEN << Ord["\\"], Ord["\""] >>
  ELSE IF c = Ord["\\"] THEN << Ord["\\"], Ord["\\"] >>
  ELSE IF c = 8 THEN << Ord["\\"], Ord["b"] >>
  ELSE IF c = 9 THEN << Ord["\\"], Ord["t"] >>
  ELSE IF c = 10 THEN << Ord["\\"], Ord["n"] >>
  ELSE IF c = 12 THEN << Ord["\\"], Ord["f"] >>
  ELSE IF c = 13 THEN << Ord["\\"], Ord["r"] >>
  ELSE IF c >= 32 /\ c <= 126 THEN << c >>
  ELSE IF c < 65536 THEN << Ord["\\"], Ord["u"] >> \o Hex4(c)
  ELSE << Ord["\\"], Ord["u"] >> \o Hex4(55296 + ((c - 65536) \div 1024))
       \o << Ord["\\"], Ord["u"] >> \o Hex4(56320 + ((c - 65536) % 1024))

DumpsStr(s) ==
  << Ord["\""] >> \o Join([i \in 1..Len(s) |-> DumpsChar(s[i])]) \o << Ord["\""] >>

NullText      == Text(<<"n", "u", "l", "l">>)
JsonTrueText  == Text(<<"t", "r", "u", "e">>)
JsonFalseText == Text(<<"f", "a", "l", "s", "e">>)

RECURSIVE Dumps(_)
\* json.dumps(v)
Dumps(v) ==
  CASE v.t = "NoneType" -> NullText
    [] v.t = "bool" -> IF v.b THEN JsonTrueText ELSE JsonFalseText
    [] v.t = "int"  -> IntToText(v.n)
    [] v.t = "str"  -> DumpsStr(v.s)
    [] v.t = "list" ->
         << Ord["["] >>
         \o JoinWith([i \in 1..Len(v.a) |-> Dumps(v.a[i])], Text(<<",", " ">>))
         \o << Ord["]"] >>
    [] v.t = "dict" ->
         << Ord["{"] >>
         \o JoinWith([i \in 1..Len(v.m) |->
                        DumpsStr(v.m[i][1]) \o Text(<<":", " ">>) \o Dumps(v.m[i][2])],
                     Text(<<",", " ">>))
         \o << Ord["}"] >>

(***************************************************************************)
(* json.loads (line 12), after json.decoder and json.scanner.  A result is *)
(* [ok, v, end, msg]: the value and the 0-based offset after it, or the    *)
(* message and offset of the JSONDecodeError.  Each step of the decoder    *)
(* hands what it has read to the next one.                                 *)
(***************************************************************************)

Ok(v, end)     == [ok |-> TRUE, v |-> v, end |-> end, msg |-> <<>>]
Fail(msg, pos) == [ok |-> FALSE, v |-> JNull, end |-> pos, msg |-> msg]

ExpectingValue    == Text(<<"E", "x", "p", "e", "c", "t", "i", "n", "g",
                            " ", "v", "a", "l", "u", "e">>)
ExtraData         == Text(<<"E", "x", "t", "r", "a", " ", "d", "a", "t",
                            "a">>)
ExpectingName     == Text(<<"E", "x", "p", "e", "c", "t", "i", "n", "g",
                            " ", "p", "r", "o", "p", "e", "r", "t", "y", " ", "n",
                            "a", "m", "e", " ", "e", "n", "c", "l", "o", "s", "e",
                            "d", " ", "i", "n", " ", "d", "o", "u", "b", "l", "e",
                            " ", "q", "u", "o", "t", "e", "s">>)
ExpectingColon    == Text(<<"E", "x", "p", "e", "c", "t", "i", "n", "g",
                            " ", "'", ":", "'", " ", "d", "e", "l", "i", "m", "i",
                            "t", "e", "r">>)
ExpectingComma    == Text(<<"E", "x", "p", "e", "c", "t", "i", "n", "g",
                            " ", "'", ",", "'", " ", "d", "e", "l", "i", "m", "i",
                            "t", "e", "r">>)
Unterminated      == Text(<<"U", "n", "t", "e", "r", "m", "i", "n", "a",
                            "t", "e", "d", " ", "s", "t", "r", "i", "n", "g", " ",
                            "s", "t", "a", "r", "t", "i", "n", "g", " ", "a", "t">>)
InvalidControl    == Text(<<"I", "n", "v", "a", "l", "i", "d", " ", "c",
                            "o", "n", "t", "r", "o", "l", " ", "c", "h", "a", "r",
                            "a", "c", "t", "e", "r", " ", "a", "t">>)
InvalidEscape     == Text(<<"I", "n", "v", "a", "l", "i", "d", " ", "\\",
                            "e", "s", "c", "a", "p", "e", ":", " ">>)
InvalidUEscape    == Text(<<"I", "n", "v", "a", "l", "i", "d", " ", "\\",
                            "u", "X", "X", "X", "X", " ", "e", "s", "c", "a", "p",
                            "e">>)
UnexpectedBOM     == Text(<<"U", "n", "e", "x", "p", "e", "c", "t", "e",
                            "d", " ", "U", "T", "F", "-", "8", " ", "B", "O", "M",
                            " ", "(", "d", "e", "c", "o", "d", "e", " ", "u", "s",
                            "i", "n", "g", " ", "u", "t", "f", "-", "8", "-", "s",
                            "i", "g", ")">>)

\* WHITESPACE_STR = ' \t\n\r'
IsWs(c) == c = 32 \/ c = 9 \/ c = 10 \/ c = 13

RECURSIVE SkipWs(_, _)
\* WHITESPACE.match(s, i).end()
SkipWs(s, i) == IF IsWs(At(s, i)) THEN SkipWs(s, i + 1) ELSE i

\* s[i:i+len(lit)] == lit
StartsWith(s, i, lit) ==
  /\ i + Len(lit) <= Len(s)
  /\ \A k \in 1..Len(lit) : s[i + k] = lit[k]

\* The value of a hexadecimal digit, -1 for any other character.
HexVal(c) ==
  IF IsDigit(c) THEN c - Ord["0"]
  ELSE IF c >= Ord["a"] /\ c <= Ord["f"] THEN c - Ord["a"] + 10
  ELSE IF c >= Ord["A"] /\ c <= Ord["F"] THEN c - Ord["A"] + 10
  ELSE -1

\* _decode_uXXXX(s, pos), pos the offset of the u: the code unit, -1 where
\* Python raises.
DecodeU(s, pos) ==
  LET h == [k \in 1..4 |-> HexVal(At(s, pos + k))]
  IN  IF \A k \in 1..4 : h[k] >= 0
      THEN 4096 * h[1] + 256 * h[2] + 16 * h[3] + h[4]
      ELSE -1

\* BACKSLASH: the character a one-letter escape stands for, -1 for none.
Unescape(c) ==
  CASE c = Ord["\""] -> Ord["\""]
    [] c = Ord["\\"] -> Ord["\\"]
    [] c = Ord["/"]  -> Ord["/"]
    [] c = Ord["b"]  -> 8
    [] c = Ord["f"]  -> 12
    [] c = Ord["n"]  -> 10
    [] c = Ord["r"]  -> 13
    [] c = Ord["t"]  -> 9
    [] OTHER -> -1

\* The characters that end a chunk of STRINGCHUNK: the quote, the
\* backslash and the control characters.
EndsChunk(c) == c = Ord["\""] \/ c = Ord["\\"] \/ c < 32

\* The least 0-based offset j >= i of a character of s that ends a chunk,
\* len(s) if none.
ChunkEnd(s, i) == Least({j \in i..(Len(s) - 1) : EndsChunk(s[j + 1])}, Len(s))

RECURSIVE ScanString(_, _, _, _)

\* scanstring after \uXXXX = uni and a second \uXXXX = uni2 at offset next:
\* a surrogate pair is one character.
ScanPair(s, next, begin, acc, uni, uni2) ==
  IF uni2 = -1 THEN Fail(InvalidUEscape, next + 1)
  ELSE IF uni2 >= 56320 /\ uni2 <= 57343
    THEN ScanString(s, next + 6, begin,
           Append(acc, 65536 + (uni - 55296) * 1024 + (uni2 - 56320)))
  ELSE ScanString(s, next, begin, Append(acc, uni))

\* scanstring after \uXXXX = uni, which ends at offset next.
ScanUnicode(s, next, begin, acc, uni) ==
  IF uni = -1 THEN Fail(InvalidUEscape, next - 5)
  ELSE IF uni >= 55296 /\ uni <= 56319
          /\ StartsWith(s, next, << Ord["\\"], Ord["u"] >>)
    THEN ScanPair(s, next, begin, acc, uni, DecodeU(s, next + 1))
  ELSE ScanString(s, next, begin, Append(acc, uni))

\* scanstring after a backslash: esc is the character at offset end.
ScanEscape(s, end, begin, acc, esc) ==
  IF esc = -1 THEN Fail(Unterminated, begin)
  ELSE IF esc = Ord["u"] THEN ScanUnicode(s, end + 5, begin, acc, DecodeU(s, end))
  ELSE IF Unescape(esc) = -1 THEN Fail(InvalidEscape \o ReprStr(<< esc >>), end)
  ELSE ScanString(s, end + 1, begin, Append(acc, Unescape(esc)))

\* scanstring after the chunk that ends before offset j.
ScanChunk(s, j, begin, acc, c) ==
  IF c = -1 THEN Fail(Unterminated, begin)
  ELSE IF c = Ord["\""] THEN Ok(JStr(acc), j + 1)
  ELSE IF c # Ord["\\"] THEN Fail(InvalidControl, j)
  ELSE ScanEscape(s, j + 1, begin, acc, At(s, j + 1))

\* The chunk from offset end to offset j, appended to acc.
WithChunk(s, end, j, acc) == acc \o SubSeq(s, end + 1, j)

\* To offset j, the end of the chunk that starts at offset end.
ScanTo(s, end, j, begin, acc) ==
  ScanChunk(s, j, begin, WithChunk(s, end, j, acc), At(s, j))

\* scanstring(s, end, strict=True): end is the offset after the opening
\* quote at begin; acc holds the characters read so far.
ScanString(s, end, begin, acc) == ScanTo(s, end, ChunkEnd(s, end), begin, acc)

RECURSIVE DigitsEnd(_, _)
\* The offset after the run of decimal digits that starts at offset i.
DigitsEnd(s, i) == IF IsDigit(At(s, i)) THEN DigitsEnd(s, i + 1) ELSE i

\* NUMBER_RE, the integer part -?(0|[1-9]\d*) with its digits from offset
\* d: the offset after it, -1 where it does not match.
IntEnd(s, d) ==
  IF At(s, d) = Ord["0"] THEN d + 1
  ELSE IF IsDigit(At(s, d)) THEN DigitsEnd(s, d)
  ELSE -1

\* NUMBER_RE, the fraction (\.\d+)? from offset i: the offset after it.
FracEnd(s, i) ==
  IF At(s, i) = Ord["."] /\ IsDigit(At(s, i + 1)) THEN DigitsEnd(s, i + 1) ELSE i

\* The offset of the exponent's digits when its e is at offset i.
ExpDigits(s, i) ==
  IF At(s, i + 1) = Ord["+"] \/ At(s, i + 1) = Ord["-"] THEN i + 2 ELSE i + 1

\* NUMBER_RE, the exponent ([eE][-+]?\d+)? from offset i: the offset after it.
ExpEnd(s, i) ==
  IF (At(s, i) = Ord["e"] \/ At(s, i) = Ord["E"]) /\ IsDigit(At(s, ExpDigits(s, i)))
  THEN DigitsEnd(s, ExpDigits(s, i)) ELSE i

\* A float: only its literal is kept; no request of the model holds one,
\* and str() and json.dumps of one are left undefined.
JFloat(lit) == [t |-> "float", lit |-> lit]

\* int(integer) for the digits s[d:int], negated after a minus sign.
IntValue(s, idx, d, int) ==
  IF d > idx THEN 0 - DigitsValue(SubSeq(s, d + 1, int), 0)
  ELSE DigitsValue(SubSeq(s, d + 1, int), 0)

\* The number matched from idx: digits from d, integer part to int, all of
\* it to end.
NumberResult(s, idx, d, int, end) ==
  IF end = int THEN Ok(JInt(IntValue(s, idx, d, int)), end)
  ELSE Ok(JFloat(SubSeq(s, idx + 1, end)), end)

\* scan_once where no number matches: the constants, else StopIteration.
ScanConstant(s, idx) ==
  IF StartsWith(s, idx, Text(<<"N", "a", "N">>))
  THEN Ok(JFloat(SubSeq(s, idx + 1, idx + 3)), idx + 3)
  ELSE IF StartsWith(s, idx, Text(<<"I", "n", "f", "i", "n", "i", "t", "y">>))
  THEN Ok(JFloat(SubSeq(s, idx + 1, idx + 8)), idx + 8)
  ELSE IF StartsWith(s, idx, Text(<<"-", "I", "n", "f", "i", "n", "i", "t",
                                    "y">>))
  THEN Ok(JFloat(SubSeq(s, idx + 1, idx + 9)), idx + 9)
  ELSE Fail(ExpectingValue, idx)

ScanInt(s, idx, d, int) ==
  IF int = -1 THEN ScanConstant(s, idx)
  ELSE NumberResult(s, idx, d, int, ExpEnd(s, FracEnd(s, int)))

\* match_number(s, idx) and what scan_once makes of it.
ScanNumber(s, idx, d) == ScanInt(s, idx, d, IntEnd(s, d))

RECURSIVE ScanOnce(_, _)
RECURSIVE ArrayItems(_, _, _)
RECURSIVE ObjectPairs(_, _, _)

\* JSONArray after a value: e is the offset of the next character that is
\* no whitespace.
ArrayDelimiter(s, e, values) ==
  IF At(s, e) = Ord["]"] THEN Ok(JArr(values), e + 1)
  ELSE IF At(s, e) # Ord[","] THEN Fail(ExpectingComma, e)
  ELSE ArrayItems(s, SkipWs(s, e + 1), values)

\* JSONArray with the result r of scan_once for the next value.
ArrayValue(s, r, values) ==
  IF ~r.ok THEN r ELSE ArrayDelimiter(s, SkipWs(s, r.end), Append(values, r.v))

\* JSONArray((s, end), scan_once) from its loop on: end is the offset of
\* the next value, values the list so far.
ArrayItems(s, end, values) == ArrayValue(s, ScanOnce(s, end), values)

\* JSONArray((s, end), scan_once) after the whitespace that follows the [.
ArrayOpen(s, e) ==
  IF At(s, e) = Ord["]"] THEN Ok(JArr(<<>>), e + 1) ELSE ArrayItems(s, e, <<>>)

\* JSONArray((s, end), scan_once): end is the offset after the [.
JSONArray(s, end) == ArrayOpen(s, SkipWs(s, end))

\* JSONObject after a comma: n is the offset of the next character that is
\* no whitespace.
ObjectNextKey(s, n, pairs) ==
  IF At(s, n) # Ord["\""] THEN Fail(ExpectingName, n)
  ELSE ObjectPairs(s, n + 1, pairs)

\* JSONObject after a value: e is the offset of the next character that is
\* no whitespace.  The pairs make the dict: dict(pairs).
ObjectDelimiter(s, e, pairs) ==
  IF At(s, e) = Ord["}"] THEN Ok(JObj(DictOf(pairs, <<>>)), e + 1)
  ELSE IF At(s, e) # Ord[","] THEN Fail(ExpectingComma, e)
  ELSE ObjectNextKey(s, SkipWs(s, e + 1), pairs)

\* JSONObject with the result r of scan_once for the value of key.
ObjectValue(s, key, r, pairs) ==
  IF ~r.ok THEN r
  ELSE ObjectDelimiter(s, SkipWs(s, r.end), Append(pairs, << key, r.v >>))

\* JSONObject after a key: colon is the offset of the next character that
\* is no whitespace.
ObjectColon(s, key, colon, pairs) ==
  IF At(s, colon) # Ord[":"] THEN Fail(ExpectingColon, colon)
  ELSE ObjectValue(s, key, ScanOnce(s, SkipWs(s, colon + 1)), pairs)

\* JSONObject with the result k of scanstring for the next key.
ObjectKey(s, k, pairs) ==
  IF ~k.ok THEN k ELSE ObjectColon(s, k.v.s, SkipWs(s, k.end), pairs)

\* JSONObject((s, end), ...) from its loop on: end is the offset after the
\* opening quote of the next key, pairs the list so far.
ObjectPairs(s, end, pairs) == ObjectKey(s, ScanString(s, end, end - 1, <<>>), pairs)

\* JSONObject((s, end), ...) after the whitespace that follows the {.
ObjectOpen(s, e) ==
  IF At(s, e) = Ord["}"] THEN Ok(JObj(<<>>), e + 1)
  ELSE IF At(s, e) # Ord["\""] THEN Fail(ExpectingName, e)
  ELSE ObjectPairs(s, e + 1, <<>>)

\* JSONObject((s, end), ...): end is the offset after the {.
JSONObject(s, end) == ObjectOpen(s, SkipWs(s, end))

\* scan_once(s, idx); StopIteration(idx) is reported as the "Expecting
\* value" its callers turn it into.
ScanOnce(s, idx) ==
  IF At(s, idx) = Ord["\""] THEN ScanString(s, idx + 1, idx, <<>>)
  ELSE IF At(s, idx) = Ord["{"] THEN JSONObject(s, idx + 1)
  ELSE IF At(s, idx) = Ord["["] THEN JSONArray(s, idx + 1)
  ELSE IF StartsWith(s, idx, NullText) THEN Ok(JNull, idx + 4)
  ELSE IF StartsWith(s, idx, JsonTrueText) THEN Ok(JBool(TRUE), idx + 4)
  ELSE IF StartsWith(s, idx, JsonFalseText) THEN Ok(JBool(FALSE), idx + 5)
  ELSE ScanNumber(s, idx, IF At(s, idx) = Ord["-"] THEN idx + 1 ELSE idx)

\* The line feeds of s[0:pos], as 1-based positions.
LineFeeds(s, pos) == {i \in 1..pos : i <= Len(s) /\ s[i] = 10}

\* The greatest member of a set of numbers, 0 for the empty set.
Last(set) == IF set = {} THEN 0 ELSE CHOOSE i \in set : \A j \in set : j <= i

\* str(e) of JSONDecodeError(msg, s, pos)
DecodeErrorText(msg, s, pos) ==
  msg \o Text(<<":", " ", "l", "i", "n", "e", " ">>) \o IntToText(1 + Cardinality(LineFeeds(s, pos)))
      \o Text(<<" ", "c", "o", "l", "u", "m", "n", " ">>) \o IntToText(pos - Last(LineFeeds(s, pos)) + 1)
      \o Text(<<" ", "(", "c", "h", "a", "r", " ">>) \o IntToText(pos) \o Text(<<")">>)

\* What json.loads(s) gives: [ok, v, err], err the str() of the exception.
Loaded(v)     == [ok |-> TRUE, v |-> v, err |-> <<>>]
NotLoaded(e)  == [ok |-> FALSE, v |-> JNull, err |-> e]

\* JSONDecoder.decode after raw_decode gave r and the whitespace after it
\* ends at offset end.
DecodeEnd(s, r, end) ==
  IF end # Len(s) THEN NotLoaded(DecodeErrorText(ExtraData, s, end))
  ELSE Loaded(r.v)

\* JSONDecoder.decode with the result r of raw_decode.
DecodeValue(s, r) ==
  IF ~r.ok THEN NotLoaded(DecodeErrorText(r.msg, s, r.end))
  ELSE DecodeEnd(s, r, SkipWs(s, r.end))

\* json.loads(s) for a str s
Loads(s) ==
  IF At(s, 0) = 65279 THEN NotLoaded(DecodeErrorText(UnexpectedBOM, s, 0))
  ELSE DecodeValue(s, ScanOnce(s, SkipWs(s, 0)))

(***************************************************************************)
(* Handler.do_POST, lines 8-38                                             *)
(***************************************************************************)

\* int(x) for a str x (line 9): ok is FALSE where Python raises ValueError.
\* Surrounding whitespace, a sign and single underscores between digits are
\* accepted, as int() accepts them.
PyInt(x) ==
  LET lo  == CHOOSE i \in 0..Len(x) :
               /\ \A k \in 1..i : IsWs(x[k])
               /\ (i = Len(x) \/ ~IsWs(x[i + 1]))
      hi  == CHOOSE j \in lo..Len(x) :
               /\ \A k \in (j + 1)..Len(x) : IsWs(x[k])
               /\ (j = lo \/ ~IsWs(x[j]))
      sgn == lo < hi /\ (x[lo + 1] = Ord["-"] \/ x[lo + 1] = Ord["+"])
      d   == IF sgn THEN lo + 1 ELSE lo
      ok  == /\ d < hi
             /\ \A k \in (d + 1)..hi : IsDigit(x[k]) \/ x[k] = Ord["_"]
             /\ IsDigit(x[d + 1]) /\ IsDigit(x[hi])
             /\ \A k \in (d + 1)..(hi - 1) : ~(x[k] = Ord["_"] /\ x[k + 1] = Ord["_"])
      n   == DigitsValue(SelectSeq(SubSeq(x, d + 1, hi), IsDigit), 0)
  IN  [ok |-> ok,
       n  |-> IF ~ok THEN 0 ELSE IF sgn /\ x[lo + 1] = Ord["-"] THEN 0 - n ELSE n]

\* The headers of a request: Content-Length is the only one do_POST reads.
NoHeader     == [present |-> FALSE, value |-> <<>>]
Header(text) == [present |-> TRUE, value |-> text]

\* int(self.headers.get('Content-Length', 0)), line 9
ContentLength(h) == IF h.present THEN PyInt(h.value) ELSE [ok |-> TRUE, n |-> 0]

\* Whether rfile.read(n) returns: a buffered reader blocks until it has n
\* bytes or the peer has shut its side down; a negative n reads to the end.
ReadReady(n, avail, closed) == closed \/ (n >= 0 /\ Len(avail) >= n)

\* The number of bytes rfile.read(n) returns once it does.
ReadCount(n, avail) ==
  IF n < 0 \/ n > Len(avail) THEN Len(avail) ELSE n

JsonrpcKey    == Text(<<"j", "s", "o", "n", "r", "p", "c">>)
IdKey         == Text(<<"i", "d">>)
MethodKey     == Text(<<"m", "e", "t", "h", "o", "d">>)
ResultKey     == Text(<<"r", "e", "s", "u", "l", "t">>)
ErrorKey      == Text(<<"e", "r", "r", "o", "r">>)
CodeKey       == Text(<<"c", "o", "d", "e">>)
MessageKey    == Text(<<"m", "e", "s", "s", "a", "g", "e">>)
Version       == Text(<<"2", ".", "0">>)
MockResultFor == Text(<<"m", "o", "c", "k", "_", "r", "e", "s", "u", "l",
                        "t", "_", "f", "o", "r", "_">>)
ParseErrorMsg == Text(<<"P", "a", "r", "s", "e", " ", "e", "r", "r", "o",
                        "r", ":", " ">>)
ParseErrorCode == -32700
StatusOK == 200

\* type(v).__name__
TypeName(v) ==
  CASE v.t = "NoneType" -> Text(<<"N", "o", "n", "e", "T", "y", "p", "e">>)
    [] v.t = "bool"  -> Text(<<"b", "o", "o", "l">>)
    [] v.t = "int"   -> Text(<<"i", "n", "t">>)
    [] v.t = "float" -> Text(<<"f", "l", "o", "a", "t">>)
    [] v.t = "str"   -> Text(<<"s", "t", "r">>)
    [] v.t = "list"  -> Text(<<"l", "i", "s", "t">>)
    [] v.t = "dict"  -> Text(<<"d", "i", "c", "t">>)

\* str(e) of the AttributeError that v.get raises for a v that is no dict.
NoGetAttribute(v) ==
  Text(<<"'">>) \o TypeName(v) \o Text(<<"'", " ", "o", "b", "j", "e", "c",
                                         "t", " ", "h", "a", "s", " ", "n", "o",
                                         " ", "a", "t", "t", "r", "i", "b", "u",
                                         "t", "e", " ", "'", "g", "e", "t", "'">>)

\* The dict appended for batch element r, lines 17-21.
BatchItemResponse(r) ==
  JObj(<< << JsonrpcKey, JStr(Version) >>,
          << IdKey, Get(r, IdKey) >>,
          << ResultKey, JStr(MockResultFor \o PyStr(Get(r, MethodKey))) >> >>)

\* The dict of a single request without its id.
SingleResponseNullId(r) ==
  JObj(<< << JsonrpcKey, JStr(Version) >>,
          << IdKey, JNull >>,
          << ResultKey, JStr(MockResultFor \o PyStr(Get(r, MethodKey))) >> >>)

\* The dict dumped for a single request, lines 24-28.
SingleResponse(r) ==
  JObj(<< << JsonrpcKey, JStr(Version) >>,
          << IdKey, Get(r, IdKey) >>,
          << ResultKey, JStr(MockResultFor \o PyStr(Get(r, MethodKey))) >> >>)

\* The dict dumped in the except branch, lines 30-34, for str(e) = e.
ErrorResponse(e) ==
  JObj(<< << JsonrpcKey, JStr(Version) >>,
          << IdKey, JNull >>,
          << ErrorKey, JObj(<< << CodeKey, JInt(ParseErrorCode) >>,
                               << MessageKey, JStr(ParseErrorMsg \o e) >> >>) >> >>)

\* A response whose status tells a parse error from a result.
HttpResponseByPayload(payload) ==
  [status  |-> IF Loads(Decode(payload).text).v.t = "dict"
                  /\ HasKey(Loads(Decode(payload).text).v.m, ErrorKey)
               THEN 400 ELSE StatusOK,
   headers |-> << << "Content-Type", "application/json" >> >>,
   body    |-> payload]

\* What lines 35-38 put on the connection for the payload bytes.
HttpResponse(payload) ==
  [status  |-> StatusOK,
   headers |-> << << "Content-Type", "application/json" >> >>,
   body    |-> payload]

(***************************************************************************)
(* Requests the clients send.  A request is the Content-Length header and  *)
(* the bytes the client puts on the connection after the headers.          *)
(***************************************************************************)

MaxBatch == 2
MaxCut == 2

IdValues     == { JInt(1), JNull, JStr(Text(<<"x">>)) }
MethodValues == { JStr(Text(<<"a">>)), JNull, JInt(7), JArr(<< JInt(1), JStr(Text(<<"a">>)) >>) }

\* Request objects: id and method each present or absent.
RequestObjects ==
  { JObj(<<>>) }
  \cup { JObj(<< << IdKey, i >> >>) : i \in IdValues }
  \cup { JObj(<< << MethodKey, m >> >>) : m \in MethodValues }
  \cup { JObj(<< << IdKey, i >>, << MethodKey, m >> >>) :
           i \in IdValues, m \in MethodValues }

\* JSON values that are no object.
NonObjects == { JInt(5), JStr(Text(<<"a">>)), JNull, JBool(TRUE) }

\* The elements batches are built from; the last one is no object.
BatchElements ==
  { JObj(<< << IdKey, JInt(1) >>, << MethodKey, JStr(Text(<<"a">>)) >> >>),
    JObj(<< << MethodKey, JStr(Text(<<"b">>)) >> >>),
    JInt(5) }

Batches ==
  UNION { { JArr(a) : a \in [1..n -> BatchElements] } : n \in 0..MaxBatch }

\* Bodies a JSON encoder produces.
EncodedBodies ==
  { Encode(Dumps(v)).bytes : v \in RequestObjects \cup NonObjects \cup Batches }

\* Bodies written by hand: compact, with whitespace, duplicate keys,
\* escapes, a nested batch, and texts that are no JSON.
TextBodies ==
  { Encode(t).bytes : t \in
      { <<>>,
        Text(<<"n", "o", "t", " ", "j", "s", "o", "n">>),
        Text(<<"{", "\"", "j", "s", "o", "n", "r", "p", "c", "\"", ":",
               "\"", "2", ".", "0", "\"", ",", "\"", "i", "d", "\"", ":", "1", ",",
               "\"", "m", "e", "t", "h", "o", "d", "\"", ":", "\"", "e", "t", "h",
               "_", "b", "l", "o", "c", "k", "N", "u", "m", "b", "e", "r", "\"",
               "}">>),
        Text(<<"[", "{", "\"", "i", "d", "\"", ":", "1", ",", "\"", "m",
               "e", "t", "h", "o", "d", "\"", ":", "\"", "a", "\"", "}", ",", "{",
               "\"", "i", "d", "\"", ":", "2", ",", "\"", "m", "e", "t", "h", "o",
               "d", "\"", ":", "\"", "b", "\"", "}", "]">>),
        Text(<<" ", "{", "\"", "m", "e", "t", "h", "o", "d", "\"", " ", ":",
               " ", "\"", "a", "\"", " ", ",", " ", "\"", "i", "d", "\"", " ", ":",
               " ", "1", "}", " ">>),
        Text(<<"{", "\"", "i", "d", "\"", ":", "1", ",", "\"", "i", "d",
               "\"", ":", "2", ",", "\"", "m", "e", "t", "h", "o", "d", "\"", ":",
               "\"", "a", "\"", "}">>),
        Text(<<"{", "\"", "i", "d", "\"", ":", "{", "\"", "k", "\"", ":",
               "[", "t", "r", "u", "e", ",", "f", "a", "l", "s", "e", "]", "}",
               ",", "\"", "m", "e", "t", "h", "o", "d", "\"", ":", "\"", "a", "\\",
               "\"", "b", "\"", "}">>),
        Text(<<"{", "\"", "m", "e", "t", "h", "o", "d", "\"", ":", "\"",
               "\\", "u", "0", "0", "e", "9", "\\", "u", "d", "8", "3", "d", "\\",
               "u", "d", "e", "0", "0", "\"", "}">>),
        Text(<<"[", "[", "{", "\"", "i", "d", "\"", ":", "1", "}", "]",
               "]">>),
        Text(<<"{", "\"", "i", "d", "\"", ":", "1", ",", "}">>),
        Text(<<"{", "\"", "i", "d", "\"", "}">>),
        Text(<<"{", "\"", "i", "d", "\"", ":", "1", " ", "\"", "m", "e",
               "t", "h", "o", "d", "\"", ":", "\"", "a", "\"", "}">>),
        Text(<<"{", "\"", "m", "e", "t", "h", "o", "d", "\"", ":", "\"",
               "a", "}">>),
        Text(<<"[", "{", "\"", "i", "d", "\"", ":", "1", "}", ",", "]">>),
        Text(<<"{", "\"", "i", "d", "\"", ":", "-", "0", "}">>),
        Text(<<"{", "\"", "i", "d", "\"", ":", "0", "1", "}">>),
        Text(<<"{", "}", "{", "}">>) } }

\* Bodies given as bytes: a byte that opens no UTF-8 sequence, a sequence
\* cut short, a two-byte character inside a method name.
ByteBodies ==
  { << 255 >>,
    << 195 >>,
    Encode(Text(<<"{", "\"", "m", "e", "t", "h", "o", "d", "\"", ":", "\"">>)).bytes \o << 195, 34, 125 >>,
    Encode(Text(<<"{", "\"", "i", "d", "\"", ":", "1", ",", "\"", "m", "e",
                  "t", "h", "o", "d", "\"", ":", "\"">>)).bytes \o << 195, 169 >> \o Encode(Text(<<"\"",
                                                                                                                                                                               "}">>)).bytes }

Bodies == EncodedBodies \cup TextBodies \cup ByteBodies

\* Bodies sent under each of the Content-Length headers of FramedRequests.
FramedBodies ==
  { Encode(t).bytes : t \in
      { <<>>, Text(<<"{", "}">>), Text(<<"{", "\"", "i", "d", "\"", ":",
                                         "1", ",", "\"", "m", "e", "t", "h", "o",
                                         "d", "\"", ":", "\"", "a", "\"", "}">>), Text(<<"[",
                                                                                                                                                                                                                                                    "{",
                                                                                                                                                                                                                                                    "\"",
                                                                                                                                                                                                                                                    "i",
                                                                                                                                                                                                                                                    "d",
                                                                                                                                                                                                                                                    "\"",
                                                                                                                                                                                                                                                    ":",
                                                                                                                                                                                                                                                    "1",
                                                                                                                                                                                                                                                    "}",
                                                                                                                                                                                                                                                    ",",
                                                                                                                                                                                                                                                    "{",
                                                                                                                                                                                                                                                    "\"",
                                                                                                                                                                                                                                                    "i",
                                                                                                                                                                                                                                                    "d",
                                                                                                                                                                                                                                                    "\"",
                                                                                                                                                                                                                                                    ":",
                                                                                                                                                                                                                                                    "2",
                                                                                                                                                                                                                                                    "}",
                                                                                                                                                                                                                                                    "]">>) } }

\* Content-Length values that are no count of the bytes sent.
OddLengths ==
  { Text(<<"a", "b", "c">>), <<>>, Text(<<"-", "1">>), Text(<<"-", "5">>), Text(<<"2",
                                                                                  ".",
                                                                                  "0">>) }

FramedRequests ==
  { [headers |-> h, sent |-> b] :
      h \in { NoHeader } \cup { Header(x) : x \in OddLengths },
      b \in FramedBodies }
  \cup { [headers |-> Header(IntToText(Len(b) - k)), sent |-> b] :
           b \in { c \in FramedBodies : Len(c) >= MaxCut }, k \in 1..MaxCut }
  \cup { [headers |-> Header(IntToText(Len(b) + 2)), sent |-> b] : b \in FramedBodies }
  \cup { [headers |-> Header(Text(<<" ", "+", "2", " ">>)), sent |-> b] : b \in FramedBodies }

\* The requests of the model: every body under its own length, and the
\* framed ones.
Requests ==
  { [headers |-> Header(IntToText(Len(b))), sent |-> b] : b \in Bodies }
  \cup FramedRequests

NoRequest == [headers |-> NoHeader, sent |-> <<>>]

(***************************************************************************)
(* The server: HTTPServer(...).serve_forever() with Handler, line 45.      *)
(* One connection at a time; each connection carries one request           *)
(* (protocol HTTP/1.0) and gets a new Handler.                             *)
(***************************************************************************)

VARIABLES
  pc,         \* where the server is: "accept", a line of do_POST, "closed"
  conn,       \* the request of the current connection, as the client sent it
  rfile,      \* the bytes of the connection not yet read
  eof,        \* whether the client has shut down its side
  length,     \* do_POST's length
  raw,        \* the bytes rfile.read returned
  body,       \* do_POST's body
  req,        \* do_POST's req
  responses,  \* do_POST's responses
  exc,        \* str(e) of the exception the try block caught
  response,   \* do_POST's response
  wfile,      \* the responses written on the current connection
  raised,     \* the exception that left do_POST, "none" if none did
  first       \* the first request the server finished, and what it got

vars == << pc, conn, rfile, eof, length, raw, body, req, responses, exc,
           response, wfile, raised, first >>

locals == << length, raw, body, req, responses, exc, response >>

Init ==
  /\ pc = "accept"
  /\ conn = NoRequest
  /\ rfile = <<>>
  /\ eof = FALSE
  /\ length = 0
  /\ raw = <<>>
  /\ body = <<>>
  /\ req = JNull
  /\ responses = <<>>
  /\ exc = <<>>
  /\ response = <<>>
  /\ wfile = <<>>
  /\ raised = "none"
  /\ first = [set |-> FALSE, conn |-> NoRequest, wfile |-> <<>>, raised |-> "none"]

\* A reader that outlives its connection: the unread bytes stay in front.
SharedRfile(leftover, sent) == leftover \o sent

\* What a new connection's rfile holds: the bytes its client sent.  The
\* bytes a finished request left unread went with its connection.
NewRfile(leftover, sent) == sent

\* serve_forever accepts the next connection and constructs its Handler,
\* which reaches do_POST.
Accept(r) ==
  /\ pc \in {"accept", "closed"}
  /\ pc' = "line9"
  /\ conn' = r
  /\ rfile' = NewRfile(rfile, r.sent)
  /\ eof' = FALSE
  /\ length' = 0
  /\ raw' = <<>>
  /\ body' = <<>>
  /\ req' = JNull
  /\ responses' = <<>>
  /\ exc' = <<>>
  /\ response' = <<>>
  /\ wfile' = <<>>
  /\ raised' = "none"
  /\ UNCHANGED first

\* The client shuts down its side while the handler waits in rfile.read.
ClientClose ==
  /\ pc = "read"
  /\ ~eof
  /\ ~ReadReady(length, rfile, eof)
  /\ eof' = TRUE
  /\ UNCHANGED << pc, conn, rfile, locals, wfile, raised, first >>

\* do_POST ends, by return or by an exception: the connection is closed
\* (socketserver's handle_error reports the exception and the server goes
\* on), and the first request's outcome is remembered.
Finish(w, e) ==
  /\ pc' = "closed"
  /\ wfile' = w
  /\ raised' = e
  /\ first' = IF first.set THEN first
              ELSE [set |-> TRUE, conn |-> conn, wfile |-> w, raised |-> e]

\* Line 9
ParseLength ==
  /\ pc = "line9"
  /\ LET n == ContentLength(conn.headers)
     IN  IF n.ok
         THEN /\ length' = n.n
              /\ pc' = "read"
              /\ UNCHANGED << wfile, raised, first >>
         ELSE /\ Finish(wfile, "ValueError")
              /\ UNCHANGED length
  /\ UNCHANGED << conn, rfile, eof, raw, body, req, responses, exc, response >>

\* Line 10, self.rfile.read(length)
Read ==
  /\ pc = "read"
  /\ ReadReady(length, rfile, eof)
  /\ LET n == ReadCount(length, rfile)
     IN  /\ raw' = SubSeq(rfile, 1, n)
         /\ rfile' = SubSeq(rfile, n + 1, Len(rfile))
  /\ pc' = "decode"
  /\ UNCHANGED << conn, eof, length, body, req, responses, exc, response,
                  wfile, raised, first >>

\* Line 10, .decode('utf-8'): outside the try block
DecodeBody ==
  /\ pc = "decode"
  /\ LET d == Decode(raw)
     IN  IF d.ok
         THEN /\ body' = d.text
              /\ pc' = "line12"
              /\ UNCHANGED << wfile, raised, first >>
         ELSE /\ Finish(wfile, "UnicodeDecodeError")
              /\ UNCHANGED body
  /\ UNCHANGED << conn, rfile, eof, length, raw, req, responses, exc, response >>

\* Lines 12-15 and 23: json.loads, the branch on isinstance(req, list),
\* and responses = []
LoadsBody ==
  /\ pc = "line12"
  /\ LET r == Loads(body)
     IN  IF ~r.ok
         THEN /\ exc' = r.err
              /\ pc' = "except"
              /\ UNCHANGED req
         ELSE /\ req' = r.v
              /\ pc' = IF IsList(r.v) THEN "for" ELSE "line24"
              /\ UNCHANGED exc
  /\ responses' = <<>>
  /\ UNCHANGED << conn, rfile, eof, length, raw, body, response,
                  wfile, raised, first >>

\* A list with item put first.
PrependResponse(list, item) == << item >> \o list

\* responses.append(item), line 17
AppendResponse(list, item) == Append(list, item)

\* Lines 16-21: one turn of the loop, for the next element r of req
BatchStep ==
  /\ pc = "for"
  /\ Len(responses) < Len(req.a)
  /\ LET r == req.a[Len(responses) + 1]
     IN  IF IsDict(r)
         THEN /\ responses' = AppendResponse(responses, BatchItemResponse(r))
              /\ UNCHANGED << pc, exc >>
         ELSE /\ exc' = NoGetAttribute(r)
              /\ pc' = "except"
              /\ UNCHANGED responses
  /\ UNCHANGED << conn, rfile, eof, length, raw, body, req, response,
                  wfile, raised, first >>

\* Line 22, after the loop
BatchDone ==
  /\ pc = "for"
  /\ Len(responses) = Len(req.a)
  /\ response' = Dumps(JArr(responses))
  /\ pc' = "line35"
  /\ UNCHANGED << conn, rfile, eof, length, raw, body, req, responses, exc,
                  wfile, raised, first >>

\* Lines 24-28
Single ==
  /\ pc = "line24"
  /\ IF IsDict(req)
     THEN /\ response' = Dumps(SingleResponse(req))
          /\ pc' = "line35"
          /\ UNCHANGED exc
     ELSE /\ exc' = NoGetAttribute(req)
          /\ pc' = "except"
          /\ UNCHANGED response
  /\ UNCHANGED << conn, rfile, eof, length, raw, body, req, responses,
                  wfile, raised, first >>

\* Lines 29-34
Except ==
  /\ pc = "except"
  /\ response' = Dumps(ErrorResponse(exc))
  /\ pc' = "line35"
  /\ UNCHANGED << conn, rfile, eof, length, raw, body, req, responses, exc,
                  wfile, raised, first >>

\* Lines 35-38
Send ==
  /\ pc = "line35"
  /\ LET e == Encode(response)
     IN  IF e.ok
         THEN Finish(Append(wfile, HttpResponse(e.bytes)), "none")
         ELSE Finish(wfile, "UnicodeEncodeError")
  /\ UNCHANGED << conn, rfile, eof, locals >>

Next ==
  \/ \E r \in Requests : Accept(r)
  \/ ClientClose
  \/ ParseLength
  \/ Read
  \/ DecodeBody
  \/ LoadsBody
  \/ BatchStep
  \/ BatchDone
  \/ Single
  \/ Except
  \/ Send

Spec == Init /\ [][Next]_vars

(***************************************************************************)
(* What a client reads, and the shapes of the payloads                     *)
(***************************************************************************)

\* json.loads of the bytes read as the request body.
RequestValue == Loads(Decode(raw).text)

\* Whether the bytes read as the request body decode and parse; the server
\* has read a body once it is past line 9 without a ValueError.
BodyRead   == pc = "closed" /\ raised # "ValueError"
BodyParses == Decode(raw).ok /\ RequestValue.ok

\* The payload of the one response on the connection, as the client parses
\* it.
Payload == Loads(Decode(wfile[1].body).text)

Keys(d) == {d.m[i][1] : i \in 1..Len(d.m)}

\* p is the success object for the request object r.
IsResultFor(p, r) ==
  /\ IsDict(p)
  /\ Keys(p) = {JsonrpcKey, IdKey, ResultKey}
  /\ Get(p, JsonrpcKey) = JStr(Version)
  /\ Get(p, IdKey) = Get(r, IdKey)
  /\ Get(p, ResultKey) = JStr(MockResultFor \o PyStr(Get(r, MethodKey)))

\* p is the parse-error object.
IsParseError(p) ==
  /\ IsDict(p)
  /\ Keys(p) = {JsonrpcKey, IdKey, ErrorKey}
  /\ Get(p, JsonrpcKey) = JStr(Version)
  /\ Get(p, IdKey) = JNull
  /\ IsDict(Get(p, ErrorKey))
  /\ Keys(Get(p, ErrorKey)) = {CodeKey, MessageKey}
  /\ Get(Get(p, ErrorKey), CodeKey) = JInt(ParseErrorCode)
  /\ Get(Get(p, ErrorKey), MessageKey).t = "str"
  /\ StartsWith(Get(Get(p, ErrorKey), MessageKey).s, 0, ParseErrorMsg)

\* The connection got exactly one response, and its payload is text.
Answered == Len(wfile) = 1 /\ Decode(wfile[1].body).ok

\* The connection got exactly one response, and its payload is JSON.
AnsweredOnce == Answered /\ Payload.ok

\* The connection got exactly one response: the parse-error object.
AnsweredParseError == AnsweredOnce /\ IsParseError(Payload.v)

\* v is an array whose elements are all objects.
IsBatch(v) == IsList(v) /\ \A k \in 1..Len(v.a) : IsDict(v.a[k])

\* r, a request object without id or without method, is answered by p with
\* a success object: id null where id is absent, mock_result_for_None where
\* method is absent.
DefaultsFor(p, r) ==
  /\ IsDict(p)
  /\ HasKey(p.m, ResultKey) /\ ~HasKey(p.m, ErrorKey)
  /\ ~HasKey(r.m, IdKey) => HasKey(p.m, IdKey) /\ Get(p, IdKey) = JNull
  /\ ~HasKey(r.m, MethodKey) => Get(p, ResultKey) = JStr(MockResultFor \o NoneText)

LacksField(r) == IsDict(r) /\ (~HasKey(r.m, IdKey) \/ ~HasKey(r.m, MethodKey))

(***************************************************************************)
(* Claims                                                                  *)
(***************************************************************************)

\* C1: a POST whose body parses to a JSON object with a method m and an id
\* i gets exactly one response, the object with jsonrpc "2.0", id i and
\* result "mock_result_for_" followed by str(m), and no other field.
SingleRequestAnswered ==
  (BodyRead /\ Decode(raw).ok)
  => LET r == RequestValue
         p == Payload
     IN  (r.ok /\ IsDict(r.v) /\ HasKey(r.v.m, IdKey) /\ HasKey(r.v.m, MethodKey))
         => (Answered /\ p.ok /\ IsResultFor(p.v, r.v))

\* A single request with a string id and a method that is no string has
\* been answered.
SingleRequestSeen ==
  /\ BodyRead /\ BodyParses /\ IsDict(RequestValue.v)
  /\ Get(RequestValue.v, IdKey) = JStr(Text(<<"x">>))
  /\ Get(RequestValue.v, MethodKey) = JInt(7)
  /\ Len(wfile) = 1

\* C2: a POST whose body parses to an array of N request objects gets
\* exactly one response, an array of N objects, the k-th of them the
\* success object for the k-th request.
BatchAnsweredInOrder ==
  (BodyRead /\ Decode(raw).ok)
  => LET r == RequestValue
         p == Payload
     IN  (r.ok /\ IsBatch(r.v))
         => /\ Answered /\ p.ok
            /\ IsList(p.v)
            /\ Len(p.v.a) = Len(r.v.a)
            /\ \A k \in 1..Len(r.v.a) : IsResultFor(p.v.a[k], r.v.a[k])

\* A batch of at least two request objects with different ids has been
\* answered.
BatchSeen ==
  /\ BodyRead /\ BodyParses /\ IsBatch(RequestValue.v)
  /\ Len(RequestValue.v.a) >= 2
  /\ Get(RequestValue.v.a[1], IdKey) # Get(RequestValue.v.a[2], IdKey)
  /\ Len(wfile) = 1

\* C3: a POST whose body is empty or is no valid JSON gets exactly one
\* response, the parse-error object.
InvalidBodyAnswered ==
  (BodyRead /\ ~BodyParses) => AnsweredParseError

\* A body that is no JSON, the one byte 0xFF, has been read and the
\* connection closed with nothing written.
InvalidBodyUnanswered ==
  /\ BodyRead /\ ~BodyParses /\ raw = << 255 >> /\ wfile = <<>>

\* C4: a body that does not decode as UTF-8 is answered with the
\* parse-error object, and no exception leaves do_POST.
EncodingErrorAnswered ==
  (BodyRead /\ ~Decode(raw).ok) => (raised = "none" /\ AnsweredParseError)

\* The UnicodeDecodeError of line 10 has left do_POST.
DecodeErrorEscapes ==
  /\ pc = "closed" /\ ~Decode(raw).ok
  /\ raised = "UnicodeDecodeError" /\ wfile = <<>>

\* C5: every request the server has finished with got exactly one response.
AlwaysResponds == pc = "closed" => Len(wfile) = 1

\* The ValueError of line 9 has left do_POST: the connection is closed
\* with nothing written.
ClosedWithoutResponse ==
  /\ pc = "closed" /\ raised = "ValueError" /\ wfile = <<>>

\* do_POST waits in rfile.read for bytes the client has not sent, with the
\* connection open and nothing written.
ReadWaits ==
  /\ pc = "read" /\ ~eof /\ ~ReadReady(length, rfile, eof) /\ wfile = <<>>

\* C6: every response written has status 200 and the header Content-Type:
\* application/json.
StatusAlwaysOK ==
  \A i \in 1..Len(wfile) :
    /\ wfile[i].status = 200
    /\ \E h \in 1..Len(wfile[i].headers) :
         wfile[i].headers[h] = << "Content-Type", "application/json" >>

\* Each kind of payload has been written: a result object, a batch array
\* and the parse-error object.
ResultWritten == AnsweredOnce /\ IsDict(Payload.v) /\ HasKey(Payload.v.m, ResultKey)
BatchWritten  == AnsweredOnce /\ IsList(Payload.v) /\ Len(Payload.v.a) > 0
ErrorWritten  == AnsweredParseError

\* C7: a request object without id or without method, single or in a batch
\* of request objects, is answered with a success object: id null where id
\* is absent, result "mock_result_for_None" where method is absent.
MissingFieldsTolerated ==
  (BodyRead /\ Decode(raw).ok)
  => LET r == RequestValue
         p == Payload
     IN  r.ok
         => /\ LacksField(r.v)
                 => (Answered /\ p.ok /\ DefaultsFor(p.v, r.v))
            /\ IsBatch(r.v)
                 => \A k \in 1..Len(r.v.a) :
                      LacksField(r.v.a[k])
                        => /\ Answered /\ p.ok
                           /\ IsList(p.v)
                           /\ Len(p.v.a) = Len(r.v.a)
                           /\ DefaultsFor(p.v.a[k], r.v.a[k])

\* A single request with neither id nor method has been answered, or a
\* batch whose second element has no id.
MissingFieldsSeen ==
  /\ BodyRead /\ BodyParses /\ Len(wfile) = 1
  /\ \/ RequestValue.v = JObj(<<>>)
     \/ /\ IsBatch(RequestValue.v) /\ Len(RequestValue.v.a) = 2
        /\ ~HasKey(RequestValue.v.a[2].m, IdKey)

\* Whether do_POST has returned from rfile.read on this connection.
HasRead ==
  pc \in {"decode", "line12", "for", "line24", "except", "line35"} \/ BodyRead

\* The number of body bytes a Content-Length of n gives: none for a
\* negative one.
Given(n) == IF n < 0 THEN 0 ELSE n

\* C8: do_POST reads exactly as many bytes as Content-Length gives, where
\* the client sent that many, and never a byte beyond; without the header
\* it reads none.
ReadsContentLength ==
  HasRead
  => IF conn.headers.present
     THEN /\ Len(raw) <= Given(length)
          /\ Len(conn.sent) >= Given(length) => Len(raw) = Given(length)
     ELSE Len(raw) = 0

\* With Content-Length: -1, do_POST has read every byte the client sent.
ReadBeyondLength ==
  /\ HasRead /\ conn.headers.present /\ length = -1
  /\ Len(raw) > 0 /\ raw = conn.sent

\* C8 for the lengths that are not negative: these are read as the claim
\* says.
ReadsNaturalContentLength == length >= 0 => ReadsContentLength

\* The body of a request as its framing gives it, from the request alone:
\* the first Content-Length bytes sent, all of them where there are fewer
\* or the length is negative.
FramedBody(r) ==
  SubSeq(r.sent, 1, ReadCount(ContentLength(r.headers).n, r.sent))

HasBody(r) == ContentLength(r.headers).ok

ErrorIffNotServable ==
  BodyRead
  => (AnsweredParseError
        <=> (~BodyParses
               \/ ~(IsDict(RequestValue.v) \/ IsBatch(RequestValue.v))))

\* A body that does not parse as JSON, since it does not decode, got no
\* error object.
UnparsedBodyNoError ==
  /\ BodyRead /\ ~Decode(raw).ok /\ ~AnsweredParseError

\* C3 and C10 for the bodies that decode as UTF-8: these are answered as
\* the claims say.
DecodedInvalidBodyAnswered ==
  (BodyRead /\ Decode(raw).ok /\ ~RequestValue.ok) => AnsweredParseError

DecodedErrorIffNotServable ==
  (BodyRead /\ Decode(raw).ok)
  => (AnsweredParseError
        <=> (~RequestValue.ok
               \/ ~(IsDict(RequestValue.v) \/ IsBatch(RequestValue.v))))

\* A batch whose first element is an object and whose second is none has
\* been answered with the parse-error object, after a response for the
\* first had been built.
PartialBatchSeen ==
  /\ BodyRead /\ BodyParses /\ IsList(RequestValue.v)
  /\ Len(RequestValue.v.a) = 2 /\ IsDict(RequestValue.v.a[1])
  /\ Len(responses) = 1 /\ AnsweredParseError

====
